---- MODULE Spec2Model ----
(***************************************************************************)
(* Dispatch engine of the async job scheduler: JobService (create_job,     *)
(* retry_job, update_job), RedisClient (queues, locks) and AsyncWorker     *)
(* (_process_job, _retry_job, _move_to_dlq).                               *)
(*                                                                         *)
(* One action is one step between two awaits whose effect another         *)
(* coroutine or process can observe.  The Store is a relational table     *)
(* reached through per-call sessions: a flush is visible to its own       *)
(* session only and takes the row lock of an updated row, a commit makes  *)
(* it visible to everybody.  store is the committed table.                *)
(***************************************************************************)
EXTENDS Integers, Sequences, FiniteSets, TLC

\* ---------------------------------------------------------------- bounds
\* jobs submitted in a run without Retry requests
NumJobs == 2
\* Retry requests made in a run with one job
MaxCalls == 4
\* concurrent _process_job coroutines (all workers together)
NumTasks == 2
\* concurrent retry_job calls
NumCallers == 2

\* Store or broker operations that raise in a run
MaxFaults == 2
\* ticks of the wall clock in a run
MaxClock == 3
\* seconds of the wall clock in a run that waits for the backoff sleeps
MaxSeconds == 36
\* largest num_workers and largest WORKER_CONCURRENCY setting of a pool
MaxWorkers == 5
MaxConcurrency == 4

\* ------------------------------------------------------ program constants
MAX_RETRIES == 3
RETRY_DELAY == 5
WORKER_CONCURRENCY == 20

\* a value of JobType, and a job_type that is not one
EMAIL == "email"
SMS == "sms"
JobTypes == {EMAIL, SMS}

Jobs == 1..NumJobs
Tasks == 1..NumTasks
Callers == 1..NumCallers

\* JobStatus values; "absent" stands for "no committed row"
PENDING == "pending"
QUEUED == "queued"
PROCESSING == "processing"
COMPLETED == "completed"
FAILED == "failed"
RETRYING == "retrying"
JobStatus == {PENDING, QUEUED, PROCESSING, COMPLETED, FAILED, RETRYING}
ABSENT == "absent"

\* Python None of the nullable columns and the one error / result value
NULL == "null"
BOOM == "boom"
RESULT == "result"

VARIABLES
    store,      \* committed jobs table: job id -> row
    created,    \* per job id: "none", "flushed" (inserted, enqueued, not committed), "committed"
    rowlock,    \* per job id: the session holding an uncommitted UPDATE of the row
    queue,      \* Redis list settings.JOB_QUEUE_NAME
    dlq,        \* Redis list settings.JOB_DLQ_NAME
    locks,      \* job ids whose key lock:job:{id} exists
    task,       \* per task slot: the position of one _process_job coroutine
    caller,     \* per API caller: the position of one retry_job call
    runs,       \* history: per job id, handler invocations begun so far
    was_failed, \* history: job ids whose committed status has been FAILED
    budget,     \* what the clients may still do: jobs to submit, Retry requests to make
    clock,      \* the wall clock read by datetime.utcnow(), in ticks
    worker,     \* per worker: the position of its start() loop and its running flag
    pool,       \* the position of WorkerPool.stop()
    job_type,   \* per job id: the job_type its messages carry
    retried     \* history: per job id, retry_job calls that returned the job

vars == <<store, created, rowlock, queue, dlq, locks, task, caller, runs, was_failed, budget, clock, worker, pool, job_type, retried>>

\* the runs explored: NumJobs jobs and no Retry request, or one job and MaxCalls requests
Scenarios == {[jobs |-> NumJobs, calls |-> 0, faults |-> 0],
              [jobs |-> 1, calls |-> MaxCalls, faults |-> 0]}
\* the runs with failing Store and broker operations
FaultScenarios == {[jobs |-> NumJobs, calls |-> 0, faults |-> MaxFaults],
                   [jobs |-> 1, calls |-> 1, faults |-> MaxFaults]}

\* Python None of the nullable DateTime columns
NoTime == 0

NoRow == [status |-> ABSENT, retry_count |-> 0, max_retries |-> 0,
          error |-> NULL, result |-> NULL,
          started_at |-> NoTime, completed_at |-> NoTime]
NoHolder == <<"none", 0>>
\* lease: the key this task set still exists (not expired, not deleted)
\* delay, slept_from: the backoff of _retry_job and the time its sleep began
IdleTask == [pc |-> "idle", id |-> 0, retry_count |-> 0, lease |-> FALSE,
             delay |-> 0, slept_from |-> NoTime]
IdleCaller == [pc |-> "idle", id |-> 0, retry_count |-> 0, ret |-> "none"]

Visible(j) == store[j].status # ABSENT

\* job_data pushed on the job queue
Message(j, rc) == [id |-> j, retry_count |-> rc]
\* dlq_data: {**job_data, "error": error, "failed_at": ...}
DlqMessage(j, rc, err) == [id |-> j, retry_count |-> rc, error |-> err]

\* an enqueue with LPUSH
enqueue_Left(q, m) == <<m>> \o q

\* RedisClient.enqueue: RPUSH
enqueue(q, m) == Append(q, m)

\* an update_job that stamps started_at on every transition to PROCESSING
update_job_Restamp(row, status, result, error, now) ==
    IF row.status = ABSENT THEN row
    ELSE [row EXCEPT !.status = status,
                     !.result = IF result = NULL THEN @ ELSE result,
                     !.error = IF error = NULL THEN @ ELSE error,
                     !.completed_at = IF status \in {COMPLETED, FAILED} THEN now ELSE @,
                     !.started_at = IF status = PROCESSING THEN now ELSE @]

\* JobService.update_job, as seen at commit: the fields the JobUpdate sets
\* (exclude_unset) are written, then completed_at on COMPLETED / FAILED and
\* started_at on PROCESSING when it is not set; no row -> None, nothing written
update_job(row, status, result, error, now) ==
    IF row.status = ABSENT THEN row
    ELSE [row EXCEPT !.status = status,
                     !.result = IF result = NULL THEN @ ELSE result,
                     !.error = IF error = NULL THEN @ ELSE error,
                     !.completed_at = IF status \in {COMPLETED, FAILED} THEN now ELSE @,
                     !.started_at = IF status = PROCESSING /\ @ = NoTime
                                    THEN now ELSE @]

\* datetime.utcnow()
utcnow == clock

\* TaskHandlers.get_handler: the handler registered for the job type, or None
get_handler(type) == IF type = EMAIL THEN "handle_email" ELSE NULL

\* WorkerPool.start, line 223: the concurrency of each of num_workers workers
Concurrency(setting, num_workers) == setting \div num_workers

\* WorkerPool.__init__ with num_workers and settings.WORKER_CONCURRENCY
NewPool(num_workers, setting) ==
    [pc |-> "new", i |-> 0, awaited |-> {}, sleeping |-> {},
     num_workers |-> num_workers, setting |-> setting]

\* WorkerPool.start, lines 219-228: the workers of the pool
NewWorkers(p) ==
    [w \in 1..p.num_workers |->
        [pc |-> "new", running |-> FALSE,
         concurrency |-> Concurrency(p.setting, p.num_workers)]]

\* the workers, and the worker whose active_tasks holds task slot t
Workers == DOMAIN worker
WorkerOf(t) == ((t - 1) % Cardinality(Workers)) + 1
active_tasks(w) == {t \in Tasks : WorkerOf(t) = w /\ task[t].pc # "idle"}

\* nothing submitted, no task running
Idle ==
    /\ store = [j \in Jobs |-> NoRow]
    /\ created = [j \in Jobs |-> "none"]
    /\ rowlock = [j \in Jobs |-> NoHolder]
    /\ queue = <<>>
    /\ dlq = <<>>
    /\ locks = {}
    /\ task = [t \in Tasks |-> IdleTask]
    /\ caller = [c \in Callers |-> IdleCaller]
    /\ runs = [j \in Jobs |-> 0]
    /\ was_failed = {}
    /\ clock = 1
    /\ retried = [j \in Jobs |-> 0]

\* ... and a pool of one worker per task slot, started
Empty ==
    /\ Idle
    /\ pool = [NewPool(NumTasks, WORKER_CONCURRENCY) EXCEPT !.pc = "started"]

\* ... and every job is of a type of JobType
Fresh == Empty /\ job_type = [j \in Jobs |-> EMAIL]

\* WorkerPool.start has returned and every worker loop is polling
Started == worker = [w \in 1..pool.num_workers |->
                        [NewWorkers(pool)[w] EXCEPT !.pc = "poll", !.running = TRUE]]

Init == Fresh /\ Started /\ budget \in Scenarios

\* ------------------------------------------------------------ JobService
\* create_job: db.add + flush (uncommitted INSERT), then redis.enqueue
create_job(j) ==
    /\ created[j] = "none"
    /\ \A i \in Jobs : i < j => created[i] # "none"
    /\ budget.jobs > 0
    /\ budget' = [budget EXCEPT !.jobs = @ - 1]
    /\ created' = [created EXCEPT ![j] = "flushed"]
    /\ queue' = enqueue(queue, Message(j, 0))
    /\ UNCHANGED <<store, rowlock, dlq, locks, task, caller, runs, was_failed, clock, worker, pool, job_type, retried>>

\* create_job when redis.enqueue raises: the exception leaves create_job with
\* the INSERT flushed and never committed; nothing is caught, nothing is marked
create_job_raise(j) ==
    /\ created[j] = "none"
    /\ \A i \in Jobs : i < j => created[i] # "none"
    /\ budget.jobs > 0 /\ budget.faults > 0
    /\ budget' = [budget EXCEPT !.jobs = @ - 1, !.faults = @ - 1]
    /\ created' = [created EXCEPT ![j] = "raised"]
    /\ UNCHANGED <<store, rowlock, queue, dlq, locks, task, caller, runs, was_failed, clock, worker, pool, job_type, retried>>

\* the commit of create_job's session, made by its caller after it returned
create_job_commit(j) ==
    /\ created[j] = "flushed"
    /\ created' = [created EXCEPT ![j] = "committed"]
    /\ store' = [store EXCEPT ![j] = [status |-> QUEUED, retry_count |-> 0,
                                      max_retries |-> MAX_RETRIES,
                                      error |-> NULL, result |-> NULL,
                                      started_at |-> NoTime, completed_at |-> NoTime]]
    /\ UNCHANGED <<rowlock, queue, dlq, locks, task, caller, runs, budget, was_failed, clock, worker, pool, job_type, retried>>

\* a retry_job that does not look at the status
RetryAllowed_AnyStatus(row) ==
    /\ row.status # ABSENT
    /\ ~(row.retry_count >= row.max_retries)

\* retry_job, lines 180-187: select the row and check it
RetryAllowed(row) ==
    /\ row.status # ABSENT
    /\ row.status = FAILED
    /\ ~(row.retry_count >= row.max_retries)

retry_job_select(c, j) ==
    /\ caller[c].pc = "idle"
    /\ budget.calls > 0
    /\ budget' = [budget EXCEPT !.calls = @ - 1]
    /\ caller' = [caller EXCEPT ![c] =
                    IF RetryAllowed(store[j])
                    THEN [pc |-> "selected", id |-> j,
                          retry_count |-> store[j].retry_count, ret |-> "none"]
                    ELSE [pc |-> "returned", id |-> j, retry_count |-> 0, ret |-> "None"]]
    /\ UNCHANGED <<store, created, rowlock, queue, dlq, locks, task, runs, was_failed, clock, worker, pool, job_type, retried>>

\* a retry_job that builds job_data before it increments job.retry_count
retry_job_flush_StaleCount(c) ==
    /\ caller[c].pc = "selected"
    /\ rowlock[caller[c].id] = NoHolder
    /\ rowlock' = [rowlock EXCEPT ![caller[c].id] = <<"caller", c>>]
    /\ queue' = enqueue(queue, Message(caller[c].id, caller[c].retry_count))
    /\ caller' = [caller EXCEPT ![c].pc = "flushed",
                                ![c].retry_count = caller[c].retry_count + 1]
    /\ UNCHANGED <<store, created, dlq, locks, task, runs, budget, was_failed, clock, worker, pool, job_type, retried>>

\* retry_job, lines 189-206: flush the UPDATE (waits for the row lock), enqueue
retry_job_flush(c) ==
    /\ caller[c].pc = "selected"
    /\ rowlock[caller[c].id] = NoHolder
    /\ rowlock' = [rowlock EXCEPT ![caller[c].id] = <<"caller", c>>]
    /\ queue' = enqueue(queue, Message(caller[c].id, caller[c].retry_count + 1))
    /\ caller' = [caller EXCEPT ![c].pc = "flushed",
                                ![c].retry_count = caller[c].retry_count + 1]
    /\ UNCHANGED <<store, created, dlq, locks, task, runs, budget, was_failed, clock, worker, pool, job_type, retried>>

\* the commit of retry_job's session, made by its caller after it returned
retry_job_commit(c) ==
    /\ caller[c].pc = "flushed"
    /\ store' = [store EXCEPT ![caller[c].id] =
                    [@ EXCEPT !.status = QUEUED,
                              !.retry_count = caller[c].retry_count,
                              !.error = NULL]]
    /\ rowlock' = [rowlock EXCEPT ![caller[c].id] = NoHolder]
    /\ caller' = [caller EXCEPT ![c] = [pc |-> "returned", id |-> caller[c].id,
                                        retry_count |-> 0, ret |-> "job"]]
    /\ retried' = [retried EXCEPT ![caller[c].id] = @ + 1]
    /\ UNCHANGED <<created, queue, dlq, locks, task, runs, budget, was_failed, clock, worker, pool, job_type>>

\* the call is over: the client has its answer (None or the job)
retry_job_return(c) ==
    /\ caller[c].pc = "returned"
    /\ caller' = [caller EXCEPT ![c] = IdleCaller]
    /\ UNCHANGED <<store, created, rowlock, queue, dlq, locks, task, runs, budget, was_failed, clock, worker, pool, job_type, retried>>

\* ------------------------------------------------------------ AsyncWorker
\* start, lines 42-55: BLPOP and create_task(_process_job(job_data)) in a
\* free task slot; at or above its concurrency the loop only sleeps 0.1 s
\* first (lines 43-44) and then pops all the same
dequeue(t) ==
    /\ task[t].pc = "idle"
    /\ queue # <<>>
    /\ worker[WorkerOf(t)].pc = "poll"
    /\ worker' = [worker EXCEPT ![WorkerOf(t)].pc =
                      IF worker[WorkerOf(t)].running THEN "poll" ELSE "exited"]
    /\ task' = [task EXCEPT ![t] = [pc |-> "lock", id |-> Head(queue).id,
                                    retry_count |-> Head(queue).retry_count,
                                    lease |-> FALSE,
                                    delay |-> 0, slept_from |-> NoTime]]
    /\ queue' = Tail(queue)
    /\ UNCHANGED <<store, created, rowlock, dlq, locks, caller, runs, budget, was_failed, clock, pool, job_type, retried>>

\* the _process_job task in slot t is done: the gather of AsyncWorker.stop
\* (line 71) completes when it was the last task it waited for
TaskDone(t) == IF pool.pc = "wait" /\ t \in pool.awaited
               THEN [pool EXCEPT !.awaited = @ \ {t},
                                 !.pc = IF pool.awaited = {t} THEN "woken" ELSE "wait"]
               ELSE pool

\* the tasks once the key of job j is gone (deleted or expired)
Unleased(j) == [t \in Tasks |-> IF task[t].id = j
                                THEN [task[t] EXCEPT !.lease = FALSE] ELSE task[t]]

\* a SET without NX: it succeeds whether or not the key exists
LockFree_NoNX(j) == j \in Jobs

\* RedisClient.acquire_lock, non-blocking: SET lock:job:{id} 1 NX EX timeout
LockFree(j) == j \notin locks

\* a _process_job whose "return" of line 98 sits inside the inner try: the
\* finally of line 150 deletes the key of the other worker
acquire_lock_Finally(t) ==
    /\ task[t].pc = "lock"
    /\ IF LockFree(task[t].id)
       THEN /\ locks' = locks \cup {task[t].id}
            /\ task' = [task EXCEPT ![t].pc = "mark", ![t].lease = TRUE]
       ELSE /\ locks' = locks \ {task[t].id}
            /\ task' = [Unleased(task[t].id) EXCEPT ![t] = IdleTask]
    /\ pool' = IF LockFree(task[t].id) THEN pool ELSE TaskDone(t)
    /\ UNCHANGED <<store, created, rowlock, queue, dlq, caller, runs, budget, was_failed, clock, worker, job_type, retried>>

\* _process_job, lines 93-98
acquire_lock(t) ==
    /\ task[t].pc = "lock"
    /\ IF LockFree(task[t].id)
       THEN /\ locks' = locks \cup {task[t].id}
            /\ task' = [task EXCEPT ![t].pc = "mark", ![t].lease = TRUE]
       ELSE /\ locks' = locks
            /\ task' = [task EXCEPT ![t] = IdleTask]
    /\ pool' = IF LockFree(task[t].id) THEN pool ELSE TaskDone(t)
    /\ UNCHANGED <<store, created, rowlock, queue, dlq, caller, runs, budget, was_failed, clock, worker, job_type, retried>>

\* the key's TTL (timeout=300) runs out while the key exists
lock_expire(j) ==
    /\ j \in locks
    /\ locks' = locks \ {j}
    /\ task' = Unleased(j)
    /\ UNCHANGED <<store, created, rowlock, queue, dlq, caller, runs, budget, was_failed, clock, worker, pool, job_type, retried>>

\* line 128 picks the branch of a failure
ShouldRetry(rc) == rc < MAX_RETRIES

\* a backoff that grows by RETRY_DELAY with every retry
Delay_Linear(retry_count) == RETRY_DELAY * retry_count

\* _retry_job, line 166: the backoff before retry number retry_count
Delay(retry_count) == RETRY_DELAY * (2 ^ (retry_count - 1))

\* lines 128-129 and 165-175: the task enters the except branch for a message
\* with retry_count rc; when it retries it starts the sleep of _retry_job
Failing(tk) ==
    IF ShouldRetry(tk.retry_count)
    THEN [tk EXCEPT !.pc = "sleep", !.delay = Delay(tk.retry_count + 1),
                    !.slept_from = utcnow]
    ELSE [tk EXCEPT !.pc = "fail"]

\* a worker that gives up a job without a handler at once
mark_processing_NoRetry(t) ==
    /\ task[t].pc = "mark"
    /\ rowlock[task[t].id] = NoHolder
    /\ store' = [store EXCEPT ![task[t].id] = update_job(@, PROCESSING, NULL, NULL, utcnow)]
    /\ IF get_handler(job_type[task[t].id]) = NULL
       THEN task' = [task EXCEPT ![t].pc = "fail"] /\ runs' = runs
       ELSE /\ task' = [task EXCEPT ![t].pc = "run"]
            /\ runs' = [runs EXCEPT ![task[t].id] = @ + 1]
    /\ UNCHANGED <<created, rowlock, queue, dlq, locks, caller, budget, was_failed, clock, worker, pool, job_type, retried>>

\* _process_job, lines 101-114: update PROCESSING, commit, look the handler up
\* and call it; without a handler line 111 raises into the except branch
mark_processing(t) ==
    /\ task[t].pc = "mark"
    /\ rowlock[task[t].id] = NoHolder
    /\ store' = [store EXCEPT ![task[t].id] = update_job(@, PROCESSING, NULL, NULL, utcnow)]
    /\ IF get_handler(job_type[task[t].id]) = NULL
       THEN task' = [task EXCEPT ![t] = Failing(task[t])] /\ runs' = runs
       ELSE /\ task' = [task EXCEPT ![t].pc = "run"]
            /\ runs' = [runs EXCEPT ![task[t].id] = @ + 1]
    /\ UNCHANGED <<created, rowlock, queue, dlq, locks, caller, budget, was_failed, clock, worker, pool, job_type, retried>>

\* the handler returns its result
handler_return(t) ==
    /\ task[t].pc = "run"
    /\ task' = [task EXCEPT ![t].pc = "ok"]
    /\ UNCHANGED <<store, created, rowlock, queue, dlq, locks, caller, runs, budget, was_failed, clock, worker, pool, job_type, retried>>

\* the handler raises
handler_raise(t) ==
    /\ task[t].pc = "run"
    /\ task' = [task EXCEPT ![t] = Failing(task[t])]
    /\ UNCHANGED <<store, created, rowlock, queue, dlq, locks, caller, runs, budget, was_failed, clock, worker, pool, job_type, retried>>

\* _process_job, lines 117-120: update COMPLETED, commit
mark_completed(t) ==
    /\ task[t].pc = "ok"
    /\ rowlock[task[t].id] = NoHolder
    /\ store' = [store EXCEPT ![task[t].id] = update_job(@, COMPLETED, RESULT, NULL, utcnow)]
    /\ task' = [task EXCEPT ![t].pc = "release"]
    /\ UNCHANGED <<created, rowlock, queue, dlq, locks, caller, runs, budget, was_failed, clock, worker, pool, job_type, retried>>

\* _retry_job, lines 165-179: after the backoff sleep, enqueue retry_count + 1
RetryMessage(t) == Message(task[t].id, task[t].retry_count + 1)

retry_enqueue(t) ==
    /\ task[t].pc = "sleep"
    /\ queue' = enqueue(queue, RetryMessage(t))
    /\ task' = [task EXCEPT ![t].pc = "retrying"]
    /\ UNCHANGED <<store, created, rowlock, dlq, locks, caller, runs, budget, was_failed, clock, worker, pool, job_type, retried>>

\* _process_job, lines 131-135 and 148: update RETRYING, commit
mark_retrying(t) ==
    /\ task[t].pc = "retrying"
    /\ rowlock[task[t].id] = NoHolder
    /\ store' = [store EXCEPT ![task[t].id] = update_job(@, RETRYING, NULL, BOOM, utcnow)]
    /\ task' = [task EXCEPT ![t].pc = "release"]
    /\ UNCHANGED <<created, rowlock, queue, dlq, locks, caller, runs, budget, was_failed, clock, worker, pool, job_type, retried>>

\* _process_job, lines 139-146: update FAILED (flushed), _move_to_dlq
move_to_dlq(t) ==
    /\ task[t].pc = "fail"
    /\ rowlock[task[t].id] = NoHolder
    /\ rowlock' = IF Visible(task[t].id)
                  THEN [rowlock EXCEPT ![task[t].id] = <<"task", t>>]
                  ELSE rowlock
    /\ dlq' = enqueue(dlq, DlqMessage(task[t].id, task[t].retry_count, BOOM))
    /\ task' = [task EXCEPT ![t].pc = IF Visible(task[t].id) THEN "failcommit"
                                      ELSE "release"]
    /\ UNCHANGED <<store, created, queue, locks, caller, runs, budget, was_failed, clock, worker, pool, job_type, retried>>

\* _process_job, line 148: commit of the FAILED update
mark_failed(t) ==
    /\ task[t].pc = "failcommit"
    /\ store' = [store EXCEPT ![task[t].id] = update_job(@, FAILED, NULL, BOOM, utcnow)]
    /\ rowlock' = [rowlock EXCEPT ![task[t].id] = NoHolder]
    /\ task' = [task EXCEPT ![t].pc = "release"]
    /\ was_failed' = was_failed \cup {task[t].id}
    /\ UNCHANGED <<created, queue, dlq, locks, caller, runs, budget, clock, worker, pool, job_type, retried>>

\* _process_job, lines 101-120: a Store operation of the try body raises
\* (update_job or commit for PROCESSING at "mark", for COMPLETED at "ok");
\* line 124 catches it like a failure of the handler
body_raise(t) ==
    /\ task[t].pc \in {"mark", "ok"}
    /\ budget.faults > 0
    /\ budget' = [budget EXCEPT !.faults = @ - 1]
    /\ task' = [task EXCEPT ![t] = Failing(task[t])]
    /\ UNCHANGED <<store, created, rowlock, queue, dlq, locks, caller, runs, was_failed, clock, worker, pool, job_type, retried>>

\* an except block without the finally of line 150: the exception leaves
\* _process_job at once
except_raise_NoFinally(t) ==
    /\ task[t].pc \in {"sleep", "retrying", "fail", "failcommit"}
    /\ budget.faults > 0
    /\ budget' = [budget EXCEPT !.faults = @ - 1]
    /\ rowlock' = [rowlock EXCEPT ![task[t].id] =
                      IF @ = <<"task", t>> THEN NoHolder ELSE @]
    /\ task' = [task EXCEPT ![t] = IdleTask]
    /\ pool' = TaskDone(t)
    /\ UNCHANGED <<store, created, queue, dlq, locks, caller, runs, was_failed, clock, worker, job_type, retried>>

\* _process_job, lines 128-148: an operation of the except block raises (the
\* enqueue of _retry_job at "sleep", update_job RETRYING at "retrying",
\* update_job FAILED or the DLQ enqueue at "fail", the commit at "failcommit");
\* the session is left uncommitted and the finally of line 150 runs
except_raise(t) ==
    /\ task[t].pc \in {"sleep", "retrying", "fail", "failcommit"}
    /\ budget.faults > 0
    /\ budget' = [budget EXCEPT !.faults = @ - 1]
    /\ rowlock' = [rowlock EXCEPT ![task[t].id] =
                      IF @ = <<"task", t>> THEN NoHolder ELSE @]
    /\ task' = [task EXCEPT ![t].pc = "release"]
    /\ UNCHANGED <<store, created, queue, dlq, locks, caller, runs, was_failed, clock, worker, pool, job_type, retried>>

\* RedisClient.release_lock: DEL lock:job:{id}, whoever set it
release_lock(t) ==
    /\ task[t].pc = "release"
    /\ locks' = locks \ {task[t].id}
    /\ task' = [Unleased(task[t].id) EXCEPT ![t] = IdleTask]
    /\ pool' = TaskDone(t)
    /\ UNCHANGED <<store, created, rowlock, queue, dlq, caller, runs, budget, was_failed, clock, worker, job_type, retried>>

\* ------------------------------------------------- worker and pool lifecycle
\* WorkerPool.start, lines 219-228: the workers are made and their start()
\* tasks created
pool_start ==
    /\ pool.pc = "new"
    /\ worker' = NewWorkers(pool)
    /\ pool' = [pool EXCEPT !.pc = "started"]
    /\ UNCHANGED <<store, created, rowlock, queue, dlq, locks, task, caller, runs, was_failed, budget, clock, job_type, retried>>

\* AsyncWorker.start, lines 36-47: running = True, the while test, up to BLPOP
loop_start(w) ==
    /\ worker[w].pc = "new"
    /\ worker' = [worker EXCEPT ![w].pc = "poll", ![w].running = TRUE]
    /\ UNCHANGED <<store, created, rowlock, queue, dlq, locks, task, caller, runs, was_failed, budget, clock, pool, job_type, retried>>

\* a loop without the try of line 41: the exception ends start()
loop_raise_Unhandled(w) ==
    /\ worker[w].pc = "poll"
    /\ budget.faults > 0
    /\ budget' = [budget EXCEPT !.faults = @ - 1]
    /\ worker' = [worker EXCEPT ![w].pc = "exited"]
    /\ UNCHANGED <<store, created, rowlock, queue, dlq, locks, task, caller, runs, was_failed, clock, pool, job_type, retried>>

\* AsyncWorker.start, lines 41-59: the dequeue or the create_task raises; the
\* except of line 57 logs the error and sleeps one second
loop_raise(w) ==
    /\ worker[w].pc = "poll"
    /\ budget.faults > 0
    /\ budget' = [budget EXCEPT !.faults = @ - 1]
    /\ worker' = [worker EXCEPT ![w].pc = "backoff"]
    /\ UNCHANGED <<store, created, rowlock, queue, dlq, locks, task, caller, runs, was_failed, clock, pool, job_type, retried>>

\* lines 59 and 40: the sleep is over, the while test polls again or ends
loop_resume(w) ==
    /\ worker[w].pc = "backoff"
    /\ worker' = [worker EXCEPT ![w].pc = IF worker[w].running THEN "poll" ELSE "exited"]
    /\ UNCHANGED <<store, created, rowlock, queue, dlq, locks, task, caller, runs, was_failed, budget, clock, pool, job_type, retried>>

\* AsyncWorker.start, lines 40-50: BLPOP times out on the empty queue and the
\* while test ends the loop (while running, the loop polls again: no change)
poll_timeout(w) ==
    /\ worker[w].pc = "poll"
    /\ queue = <<>>
    /\ ~worker[w].running
    /\ worker' = [worker EXCEPT ![w].pc = "exited"]
    /\ UNCHANGED <<store, created, rowlock, queue, dlq, locks, task, caller, runs, was_failed, budget, clock, pool, job_type, retried>>

\* WorkerPool.stop, lines 237-238: the first worker from i on that has an
\* active task; the stop() of the workers before it returns without an await
RECURSIVE FirstBusy(_)
FirstBusy(i) == IF i > Cardinality(Workers) THEN i
                ELSE IF active_tasks(i) # {} THEN i ELSE FirstBusy(i + 1)

\* AsyncWorker.stop, line 64, for the workers i .. FirstBusy(i)
Signalled(i) == [w \in Workers |-> IF w >= i /\ w <= FirstBusy(i)
                                 THEN [worker[w] EXCEPT !.running = FALSE]
                                 ELSE worker[w]]

\* WorkerPool.stop is called: the workers are stopped one after the other,
\* up to the first one whose stop() has to wait (line 71)
pool_stop ==
    /\ pool.pc = "started"
    /\ worker' = Signalled(1)
    /\ pool' = [pool EXCEPT
                  !.pc = IF FirstBusy(1) > Cardinality(Workers) THEN "gather" ELSE "wait",
                  !.i = FirstBusy(1),
                  !.awaited = active_tasks(FirstBusy(1)),
                  !.sleeping = {task[t].id : t \in {u \in Tasks : task[u].pc = "sleep"}}]
    /\ UNCHANGED <<store, created, rowlock, queue, dlq, locks, task, caller, runs, was_failed, budget, clock, job_type, retried>>

\* the gather of line 71 has completed: stop() returns, the next workers follow
pool_stop_resume ==
    /\ pool.pc = "woken"
    /\ worker' = Signalled(pool.i + 1)
    /\ pool' = [pool EXCEPT !.pc = IF FirstBusy(pool.i + 1) > Cardinality(Workers)
                                   THEN "gather" ELSE "wait",
                            !.i = FirstBusy(pool.i + 1),
                            !.awaited = active_tasks(FirstBusy(pool.i + 1))]
    /\ UNCHANGED <<store, created, rowlock, queue, dlq, locks, task, caller, runs, was_failed, budget, clock, job_type, retried>>

\* WorkerPool.stop, lines 241-243: every worker.start() task is done
pool_stop_return ==
    /\ pool.pc = "gather"
    /\ \A w \in Workers : worker[w].pc = "exited"
    /\ pool' = [pool EXCEPT !.pc = "returned"]
    /\ UNCHANGED <<store, created, rowlock, queue, dlq, locks, task, caller, runs, was_failed, budget, clock, worker, job_type, retried>>

\* time passes: one more second, up to the last second of the run
advance(last) ==
    /\ clock < last
    /\ clock' = clock + 1
    /\ UNCHANGED <<store, created, rowlock, queue, dlq, locks, task, caller, runs, was_failed, budget, worker, pool, job_type, retried>>

tick == advance(MaxClock)

Next ==
    \/ \E j \in Jobs : create_job(j)
    \/ \E j \in Jobs : create_job_commit(j)
    \/ \E c \in Callers, j \in Jobs : retry_job_select(c, j)
    \/ \E c \in Callers : retry_job_flush(c)
    \/ \E c \in Callers : retry_job_commit(c)
    \/ \E c \in Callers : retry_job_return(c)
    \/ \E t \in Tasks : dequeue(t)
    \/ \E t \in Tasks : acquire_lock(t)
    \/ \E j \in Jobs : lock_expire(j)
    \/ \E t \in Tasks : mark_processing(t)
    \/ \E t \in Tasks : handler_return(t)
    \/ \E t \in Tasks : handler_raise(t)
    \/ \E t \in Tasks : mark_completed(t)
    \/ \E t \in Tasks : retry_enqueue(t)
    \/ \E t \in Tasks : mark_retrying(t)
    \/ \E t \in Tasks : move_to_dlq(t)
    \/ \E t \in Tasks : mark_failed(t)
    \/ \E t \in Tasks : release_lock(t)

Spec == Init /\ [][Next]_vars

\* The runs of Spec in which the clients' sessions commit at once, one Retry
\* request is served at a time and no lock key lives longer than its TTL:
\* a pending commit goes first, then a pending step of a retry_job call.
PendingCommit == \E j \in Jobs : created[j] = "flushed"
PendingCall == \E c \in Callers :
    \/ caller[c].pc \in {"flushed", "returned"}
    \/ caller[c].pc = "selected" /\ rowlock[caller[c].id] = NoHolder

Calm ==
    IF PendingCommit THEN \A j \in Jobs : created[j] = "flushed" => created'[j] = "committed"
    ELSE IF PendingCall THEN caller' # caller /\ budget' = budget
    ELSE TRUE

NextCalm ==
    \/ (\E j \in Jobs : create_job(j)) /\ Calm
    \/ (\E j \in Jobs : create_job_commit(j)) /\ Calm
    \/ (\E c \in Callers, j \in Jobs : retry_job_select(c, j)) /\ Calm
    \/ (\E c \in Callers : retry_job_flush(c)) /\ Calm
    \/ (\E c \in Callers : retry_job_commit(c)) /\ Calm
    \/ (\E c \in Callers : retry_job_return(c)) /\ Calm
    \/ (\E t \in Tasks : dequeue(t)) /\ Calm
    \/ (\E t \in Tasks : acquire_lock(t)) /\ Calm
    \/ (\E t \in Tasks : mark_processing(t)) /\ Calm
    \/ (\E t \in Tasks : handler_return(t)) /\ Calm
    \/ (\E t \in Tasks : handler_raise(t)) /\ Calm
    \/ (\E t \in Tasks : mark_completed(t)) /\ Calm
    \/ (\E t \in Tasks : retry_enqueue(t)) /\ Calm
    \/ (\E t \in Tasks : mark_retrying(t)) /\ Calm
    \/ (\E t \in Tasks : move_to_dlq(t)) /\ Calm
    \/ (\E t \in Tasks : mark_failed(t)) /\ Calm
    \/ (\E t \in Tasks : release_lock(t)) /\ Calm

SpecCalm == Init /\ [][NextCalm]_vars

\* SpecCalm with the wall clock running
NextClock ==
    \/ NextCalm
    \/ tick /\ Calm

SpecClock == Init /\ [][NextClock]_vars

\* SpecCalm with Store and broker operations that raise
NextFault ==
    \/ NextCalm
    \/ (\E j \in Jobs : create_job_raise(j)) /\ Calm
    \/ (\E t \in Tasks : body_raise(t)) /\ Calm
    \/ (\E t \in Tasks : except_raise(t)) /\ Calm

InitFault == Fresh /\ Started /\ budget \in FaultScenarios

SpecFault == InitFault /\ [][NextFault]_vars

\* WorkerPool.start has returned: the worker.start() tasks are created, none
\* has run yet (running is False since __init__)
Created == worker = NewWorkers(pool)

InitStop == Fresh /\ Created /\ budget \in Scenarios

\* the steps of the event loop and of the sessions, under Calm: everything
\* but the requests of the clients and the call of WorkerPool.stop
Work ==
    \/ (\E j \in Jobs : create_job_commit(j)) /\ Calm
    \/ (\E c \in Callers : retry_job_flush(c)) /\ Calm
    \/ (\E c \in Callers : retry_job_commit(c)) /\ Calm
    \/ (\E c \in Callers : retry_job_return(c)) /\ Calm
    \/ (\E w \in Workers : loop_start(w)) /\ Calm
    \/ (\E w \in Workers : poll_timeout(w)) /\ Calm
    \/ (\E t \in Tasks : dequeue(t)) /\ Calm
    \/ (\E t \in Tasks : acquire_lock(t)) /\ Calm
    \/ (\E t \in Tasks : mark_processing(t)) /\ Calm
    \/ (\E t \in Tasks : handler_return(t)) /\ Calm
    \/ (\E t \in Tasks : handler_raise(t)) /\ Calm
    \/ (\E t \in Tasks : mark_completed(t)) /\ Calm
    \/ (\E t \in Tasks : retry_enqueue(t)) /\ Calm
    \/ (\E t \in Tasks : mark_retrying(t)) /\ Calm
    \/ (\E t \in Tasks : move_to_dlq(t)) /\ Calm
    \/ (\E t \in Tasks : mark_failed(t)) /\ Calm
    \/ (\E t \in Tasks : release_lock(t)) /\ Calm
    \/ pool_stop_resume /\ Calm
    \/ pool_stop_return /\ Calm

\* the pool from WorkerPool.start to the return of WorkerPool.stop
NextStop ==
    \/ Work
    \/ (\E j \in Jobs : create_job(j)) /\ Calm
    \/ (\E c \in Callers, j \in Jobs : retry_job_select(c, j)) /\ Calm
    \/ pool_stop /\ Calm

SpecStop == InitStop /\ [][NextStop]_vars

\* the event loop runs every coroutine that can run, handlers terminate
SpecStopFair == InitStop /\ [][NextStop]_vars /\ WF_vars(Work)

\* ------------------------------------------------------------ properties
\* tasks inside the handler call of line 114 for job j
Executing(j) == {t \in Tasks : task[t].pc = "run" /\ task[t].id = j}

\* C1: for every job id at most one handler invocation is executing at any
\* instant, in every interleaving, lease expiry by TTL included
C1_OneHandlerPerJob == \A j \in Jobs : Cardinality(Executing(j)) <= 1

\* nothing is left to do for the workers and no client call is under way
Drained ==
    /\ queue = <<>>
    /\ \A t \in Tasks : task[t].pc = "idle"
    /\ \A c \in Callers : caller[c].pc = "idle"
    /\ \A j \in Jobs : created[j] # "flushed"
Submitted == {j \in Jobs : created[j] # "none"}
Terminal(j) == store[j].status \in {COMPLETED, FAILED}

\* C2: the workers drain every submitted job to Completed or Failed: when
\* nothing is left to do, no job is left in Queued, Processing or Retrying
C2_DrainedJobsTerminal == Drained => \A j \in Submitted : Terminal(j)

\* messages of job j on a Redis list
Of(q, j) == {i \in 1..Len(q) : q[i].id = j}
InProcess(j) == \E t \in Tasks : task[t].pc # "idle" /\ task[t].id = j

\* C3: once Process has returned, a job that is or has been Failed has exactly
\* one DLQ message, and a job that never was Failed has none
C3_OneDlqMessagePerFailedJob ==
    \A j \in Jobs : ~InProcess(j) =>
        Cardinality(Of(dlq, j)) = (IF j \in was_failed THEN 1 ELSE 0)

\* the status of the job's record, an inserted record not yet committed included
RecordStatus(j) == IF created[j] = "flushed" THEN QUEUED ELSE store[j].status

\* C4: every message on the job queue has a Store record whose status is
\* Queued or Retrying
C4_QueuedMessageHasQueuedRecord ==
    \A i \in 1..Len(queue) : RecordStatus(queue[i].id) \in {QUEUED, RETRYING}

\* tasks between their own successful acquire_lock for j and their release_lock
Holding(j) == {t \in Tasks : task[t].id = j /\ task[t].pc \notin {"idle", "lock"}}
\* those of them whose key still exists
Leased(j) == {t \in Tasks : task[t].id = j /\ task[t].lease}

C6_RetryIffFailedBelowMax ==
    [][\A c \in Callers :
        (caller[c].pc = "idle" /\ caller'[c].pc # "idle") =>
            /\ (caller'[c].pc = "selected") =
                   (/\ store[caller'[c].id].status = FAILED
                    /\ store[caller'[c].id].retry_count < store[caller'[c].id].max_retries)
            /\ (caller'[c].pc # "selected") =
                   (/\ caller'[c].pc = "returned" /\ caller'[c].ret = "None"
                    /\ store' = store /\ queue' = queue)]_vars

\* a call refused at the limit: the job is Failed with attempts = max_attempts
\* (so three calls were granted before) and the caller got None
C6_Witness ==
    \E c \in Callers :
        /\ caller[c].pc = "returned" /\ caller[c].ret = "None"
        /\ store[caller[c].id].status = FAILED
        /\ store[caller[c].id].retry_count = store[caller[c].id].max_retries
        /\ store[caller[c].id].max_retries = MAX_RETRIES

\* C7: the Store's attempts never decrease and stay within 0..max_attempts
C7_AttemptsMonotoneBounded ==
    [][\A j \in Jobs :
        /\ store'[j].retry_count >= store[j].retry_count
        /\ store'[j].retry_count >= 0
        /\ store'[j].retry_count <= store'[j].max_retries]_vars

\* a step of retry_job for job j: its enqueue or its commit
RetryStep(j) == \E c \in Callers :
    /\ caller[c].id = j
    /\ \/ caller[c].pc = "selected" /\ caller'[c].pc = "flushed"
       \/ caller[c].pc = "flushed" /\ caller'[c].pc = "returned"

\* C8: once a job is Completed or Failed, its status does not change and no
\* message for it is pushed on the job queue, except by an explicit Retry
C8_TerminalUntilRetry ==
    [][\A j \in Jobs :
        (Terminal(j) /\ ~RetryStep(j)) =>
            /\ store'[j].status = store[j].status
            /\ Cardinality(Of(queue', j)) <= Cardinality(Of(queue, j))]_vars

\* C9: a job whose handler always fails, never retried by a client, ends Failed
\* after exactly MAX_RETRIES + 1 handler invocations with exactly one DLQ
\* message carrying attempts = MAX_RETRIES and the error.  (Once drained, a
\* null result says that no invocation succeeded and attempts = 0 that no
\* Retry was granted.)
C9_AlwaysFailingJobExhausts ==
    \A j \in Submitted :
        (Drained /\ store[j].result = NULL /\ store[j].retry_count = 0) =>
            /\ store[j].status = FAILED
            /\ runs[j] = MAX_RETRIES + 1
            /\ Cardinality(Of(dlq, j)) = 1
            /\ \A i \in Of(dlq, j) : /\ dlq[i].retry_count = MAX_RETRIES
                                     /\ dlq[i].error = BOOM

\* C10: the attempts of every message on the job queue equal the Store's
\* attempts of its job, and a job completed by the invocation of the message
\* with attempts = k has Store attempts = k
C10_StoreAttemptsFollowMessages ==
    /\ \A i \in 1..Len(queue) :
          Visible(queue[i].id) => queue[i].retry_count = store[queue[i].id].retry_count
    /\ \A t \in Tasks :
          (task[t].pc = "release" /\ store[task[t].id].status = COMPLETED) =>
              store[task[t].id].retry_count = task[t].retry_count

\* C15: a worker that has popped a message finds the job's record in the
\* Store: the record is visible before the message can be popped
C15_PoppedMessageHasRecord ==
    \A t \in Tasks : task[t].pc # "idle" => Visible(task[t].id)

\* C17: when acquire_lock returns false, _process_job returns: no handler
\* invocation, no change of the Store, of the job queue, of the DLQ, of the
\* lock key or of any other task
C17_ContendedAcquireChangesNothing ==
    [][\A t \in Tasks :
        (task[t].pc = "lock" /\ task'[t].pc # "lock" /\ task[t].id \in locks) =>
            /\ task'[t] = IdleTask
            /\ \A u \in Tasks \ {t} : task'[u] = task[u]
            /\ locks' = locks
            /\ store' = store /\ runs' = runs
            /\ queue' = queue /\ dlq' = dlq]_vars

\* a retry message was dropped: the job was run once, its retry message is
\* neither queued nor held by a task, and the key of the first run is gone
C17_Witness ==
    \E j \in Submitted :
        /\ store[j].status = RETRYING /\ runs[j] = 1
        /\ Of(queue, j) = {} /\ ~InProcess(j) /\ j \notin locks

\* C19: the handler is invoked only for a message whose Store record exists
\* with status Queued or Retrying; any other message is discarded
C19_HandlerOnlyForQueuedRecord ==
    [][\A t \in Tasks :
        (task[t].pc = "mark" /\ task'[t].pc = "run") =>
            store[task[t].id].status \in {QUEUED, RETRYING}]_vars

\* C20: started_at is set by the first transition to Processing and never
\* modified afterwards, and completed_at is set to the current time on every
\* entry to Completed or Failed
C20_StartedOnceCompletedEachTime ==
    [][\A j \in Jobs :
        /\ store[j].started_at # NoTime => store'[j].started_at = store[j].started_at
        /\ (store'[j].status = PROCESSING /\ store[j].status # PROCESSING) =>
               store'[j].started_at # NoTime
        /\ store'[j].started_at # store[j].started_at => store'[j].status = PROCESSING
        /\ (Terminal(j)' /\ store'[j].status # store[j].status) =>
               store'[j].completed_at = utcnow]_vars

\* a job that has gone through Processing a second time, after its first
\* entry to Failed, and is Failed again: started_at is that of the first run
C20_Witness ==
    \E j \in Jobs :
        /\ store[j].status = FAILED /\ store[j].retry_count >= 1
        /\ store[j].started_at # NoTime
        /\ store[j].completed_at > store[j].started_at

\* C16: when the broker push of Submit fails after the Store write, the job's
\* record ends Failed with error "enqueue failed"
C16_EnqueueFailureMarksFailed ==
    \A j \in Jobs : created[j] = "raised" =>
        /\ store[j].status = FAILED
        /\ store[j].error = "enqueue failed"

StopCalled == pool.pc \notin {"new", "started"}
StopReturned == pool.pc = "returned"

\* C11: a Process in its backoff sleep when Stop is called pushes no retry
\* message: when Stop returns its job is Retrying, with no message on the job
\* queue and no DLQ entry
C11_StopCancelsBackoff ==
    [][(~StopReturned /\ StopReturned') =>
        \A j \in pool.sleeping :
            /\ store'[j].status = RETRYING
            /\ Of(queue', j) = {}
            /\ Of(dlq', j) = {}]_vars

\* C12: once Stop has been called, no worker pops a message from the job
\* queue or launches a Process
C12_NoPopAfterStop ==
    [][StopCalled =>
        /\ Len(queue') >= Len(queue)
        /\ \A t \in Tasks : task[t].pc = "idle" => task'[t].pc = "idle"]_vars

\* C13: when Stop has returned, no Process is in flight
C13_NoProcessAfterStop ==
    StopReturned => \A t \in Tasks : task[t].pc = "idle"

\* C14: after Stop is called, at any point after Start returned, every worker
\* loop exits and Stop returns
C14_StopReturns == StopCalled ~> StopReturned

\* C21: a Retry call that finds the job Failed with attempts a < max_attempts
\* pushes exactly one message with attempts a + 1 and sets status Queued,
\* attempts a + 1 and error null; a Retry call that finds the job Queued is
\* refused
C21_RetryRequeuesOnce ==
    [][\A c \in Callers :
        /\ (caller[c].pc = "idle" /\ caller'[c].pc = "selected") =>
              /\ store[caller'[c].id].status = FAILED
              /\ caller'[c].retry_count = store[caller'[c].id].retry_count
              /\ caller'[c].retry_count < store[caller'[c].id].max_retries
        /\ (caller[c].pc = "selected" /\ caller'[c].pc # "selected") =>
              /\ queue' = Append(queue, Message(caller[c].id, caller[c].retry_count + 1))
              /\ caller'[c].retry_count = caller[c].retry_count + 1
        /\ (caller[c].pc = "flushed" /\ caller'[c].pc # "flushed") =>
              /\ store'[caller[c].id] = [store[caller[c].id] EXCEPT
                                             !.status = QUEUED,
                                             !.retry_count = caller[c].retry_count,
                                             !.error = NULL]
              /\ queue' = queue
              /\ caller'[c].ret = "job"
        /\ (caller[c].pc = "idle" /\ caller'[c].pc # "idle"
                /\ store[caller'[c].id].status = QUEUED) =>
              caller'[c].pc = "returned" /\ caller'[c].ret = "None"]_vars

\* a granted Retry has returned: the job is Queued with attempts >= 1, no
\* error, and its message with the same attempts is on the job queue
C21_Witness ==
    \E c \in Callers :
        /\ caller[c].pc = "returned" /\ caller[c].ret = "job"
        /\ store[caller[c].id].status = QUEUED
        /\ store[caller[c].id].retry_count >= 1
        /\ store[caller[c].id].error = NULL
        /\ \E i \in Of(queue, caller[c].id) :
              queue[i].retry_count = store[caller[c].id].retry_count

\* the edges of the status state machine
Edges == {<<QUEUED, PROCESSING>>, <<RETRYING, PROCESSING>>,
          <<PROCESSING, COMPLETED>>, <<PROCESSING, RETRYING>>,
          <<PROCESSING, FAILED>>, <<FAILED, QUEUED>>}

\* C23: the first status of a record is Queued and every later change of
\* status follows an edge of the state machine, Failed -> Queued only by a
\* Retry call
C23_StatusFollowsEdges ==
    [][\A j \in Jobs :
        store'[j].status # store[j].status =>
            IF store[j].status = ABSENT THEN store'[j].status = QUEUED
            ELSE /\ <<store[j].status, store'[j].status>> \in Edges
                 /\ store[j].status = FAILED => RetryStep(j)]_vars

\* C25: there is at most one message for a job on the job queue, and exactly
\* one from Submit until the first pop of the job
C25_OneMessagePerJob ==
    \A j \in Jobs :
        /\ Cardinality(Of(queue, j)) <= 1
        /\ (created[j] \in {"flushed", "committed"} /\ runs[j] = 0 /\ ~InProcess(j)) =>
               Cardinality(Of(queue, j)) = 1

\* C27: when a Store update of Process fails (marking Processing at "mark" or
\* Completed at "ok"), the worker goes on to release the lease: no handler
\* call, no retry, no DLQ push
C27_StoreFailureOnlyReleases ==
    [][\A t \in Tasks :
        /\ task[t].pc = "mark" => task'[t].pc \in {"mark", "run", "release"}
        /\ task[t].pc = "ok" => task'[t].pc \in {"ok", "release"}]_vars

\* asyncio.sleep(delay), line 175: the sleep of a task that began at slept_from
\* is not over before slept_from + delay
Timed ==
    \A t \in Tasks :
        (task[t].pc = "sleep" /\ task'[t].pc # "sleep") =>
            clock >= task[t].slept_from + task[t].delay

\* SpecCalm for one job with the wall clock running in seconds
NextBackoff ==
    \/ (\E j \in Jobs : create_job(j)) /\ Calm
    \/ (\E j \in Jobs : create_job_commit(j)) /\ Calm
    \/ (\E c \in Callers, j \in Jobs : retry_job_select(c, j)) /\ Calm
    \/ (\E c \in Callers : retry_job_flush(c)) /\ Calm
    \/ (\E c \in Callers : retry_job_commit(c)) /\ Calm
    \/ (\E c \in Callers : retry_job_return(c)) /\ Calm
    \/ (\E t \in Tasks : dequeue(t)) /\ Calm
    \/ (\E t \in Tasks : acquire_lock(t)) /\ Calm
    \/ (\E t \in Tasks : mark_processing(t)) /\ Calm
    \/ (\E t \in Tasks : handler_return(t)) /\ Calm
    \/ (\E t \in Tasks : handler_raise(t)) /\ Calm
    \/ (\E t \in Tasks : mark_completed(t)) /\ Calm
    \/ (\E t \in Tasks : retry_enqueue(t)) /\ Calm /\ Timed
    \/ (\E t \in Tasks : mark_retrying(t)) /\ Calm
    \/ (\E t \in Tasks : move_to_dlq(t)) /\ Calm
    \/ (\E t \in Tasks : mark_failed(t)) /\ Calm
    \/ (\E t \in Tasks : release_lock(t)) /\ Calm
    \/ advance(MaxSeconds) /\ Calm

InitBackoff == Fresh /\ Started /\ budget = [jobs |-> 1, calls |-> 1, faults |-> 0]

SpecBackoff == InitBackoff /\ [][NextBackoff]_vars

\* C24: automatic retry number k (k = attempts of the failed message + 1,
\* 1 <= k <= MAX_RETRIES) is re-enqueued no earlier than RETRY_DELAY * 2^(k-1)
\* seconds (5, 10, 20) after the failure and its message carries attempts k
C24_BackoffBeforeRequeue ==
    [][\A t \in Tasks :
        (task[t].pc = "sleep" /\ task'[t].pc = "retrying") =>
            LET k == task[t].retry_count + 1
                backoff == IF k = 1 THEN 5 ELSE IF k = 2 THEN 10 ELSE 20
            IN /\ k \in 1..MAX_RETRIES
               /\ backoff = RETRY_DELAY * (2 ^ (k - 1))
               /\ clock - task[t].slept_from >= backoff
               /\ queue' = Append(queue, Message(task[t].id, k))]_vars

\* the third retry has been re-enqueued 20 seconds after the failure
C24_Witness ==
    \E t \in Tasks :
        /\ task[t].pc = "retrying" /\ task[t].retry_count = MAX_RETRIES - 1
        /\ clock = task[t].slept_from + 20
        /\ \E i \in Of(queue, task[t].id) : queue[i].retry_count = MAX_RETRIES

\* SpecCalm when the messages of a job may carry a job_type without a handler
InitKind == Empty /\ Started /\ job_type \in [Jobs -> JobTypes] /\ budget \in Scenarios

SpecKind == InitKind /\ [][NextCalm]_vars

\* C29: a message whose job_type has no handler takes the failure branch of a
\* handler error: the job is marked Processing, the message is retried with
\* backoff while its attempts are below MAX_RETRIES, and the job becomes
\* Failed with a DLQ message only for a message with attempts MAX_RETRIES
C29_NoHandlerIsRetried ==
    [][\A t \in Tasks :
        LET j == task[t].id
            rc == task[t].retry_count
        IN (task[t].pc = "mark" /\ task'[t].pc # "mark" /\ get_handler(job_type[j]) = NULL) =>
              /\ store'[j].status = PROCESSING
              /\ runs'[j] = runs[j]
              /\ dlq' = dlq
              /\ IF rc < MAX_RETRIES
                 THEN task'[t].pc = "sleep" /\ task'[t].delay = RETRY_DELAY * (2 ^ rc)
                 ELSE task'[t].pc = "fail"
              /\ \A i \in Of(dlq, j) : dlq[i].retry_count = MAX_RETRIES
              /\ store[j].status = FAILED => j \in was_failed /\ Of(dlq, j) # {}]_vars

\* a job without a handler has been retried MAX_RETRIES times and is Failed,
\* with its DLQ message, without a handler call
C29_Witness ==
    \E j \in Jobs :
        /\ get_handler(job_type[j]) = NULL
        /\ store[j].status = FAILED
        /\ runs[j] = 0
        /\ \E i \in Of(dlq, j) : dlq[i].retry_count = MAX_RETRIES

\* A pool of one worker with settings.WORKER_CONCURRENCY = 1: every task slot
\* is a task of this worker
InitCapacity ==
    /\ Idle
    /\ job_type = [j \in Jobs |-> EMAIL]
    /\ pool = [NewPool(1, 1) EXCEPT !.pc = "started"]
    /\ Started
    /\ budget \in Scenarios

SpecCapacity == InitCapacity /\ [][NextCalm]_vars

\* C26: a worker never has more _process_job tasks in flight than its
\* concurrency
C26_ActiveTasksWithinConcurrency ==
    \A w \in Workers : Cardinality(active_tasks(w)) <= worker[w].concurrency

\* WorkerPool(num_workers).start() for every num_workers and every setting of
\* WORKER_CONCURRENCY, and the worker loops starting
NextPool ==
    \/ pool_start
    \/ \E w \in Workers : loop_start(w)

InitPool ==
    /\ Idle
    /\ job_type = [j \in Jobs |-> EMAIL]
    /\ pool \in {NewPool(n, c) : n \in 1..MaxWorkers, c \in 1..MaxConcurrency}
    /\ worker = <<>>
    /\ budget = [jobs |-> 0, calls |-> 0, faults |-> 0]

SpecPool == InitPool /\ [][NextPool]_vars

\* C30: a pool of N workers gives each worker the concurrency
\* max(1, floor(WORKER_CONCURRENCY / N))
C30_ConcurrencyAtLeastOne ==
    pool.pc # "new" =>
        /\ Cardinality(Workers) = pool.num_workers
        /\ \A w \in Workers :
              LET q == pool.setting \div pool.num_workers
              IN worker[w].concurrency = IF q < 1 THEN 1 ELSE q

\* SpecStop with Store and broker operations that raise
NextStopFault ==
    \/ NextStop
    \/ (\E w \in Workers : loop_raise(w)) /\ Calm
    \/ (\E w \in Workers : loop_resume(w)) /\ Calm
    \/ (\E t \in Tasks : body_raise(t)) /\ Calm
    \/ (\E t \in Tasks : except_raise(t)) /\ Calm

\* two jobs and one operation that raises, or one job, one Retry request and
\* MaxFaults operations that raise
StopFaultScenarios == {[jobs |-> NumJobs, calls |-> 0, faults |-> 1],
                       [jobs |-> 1, calls |-> 1, faults |-> MaxFaults]}

InitStopFault == Fresh /\ Created /\ budget \in StopFaultScenarios

SpecStopFault == InitStopFault /\ [][NextStopFault]_vars

\* C28: an error of the pop or of the task launch does not end a worker loop:
\* the worker sleeps and polls again; a loop ends only after Stop has set its
\* running flag to False, and no step in which an operation raises (in a loop
\* or inside a Process) ends any loop
C28_LoopSurvivesErrors ==
    [][\A w \in Workers :
        /\ (worker[w].pc # "exited" /\ worker'[w].pc = "exited") =>
              /\ StopCalled /\ ~worker[w].running
              /\ budget'.faults = budget.faults
        /\ (worker[w].pc = "backoff" /\ worker'[w].pc # "backoff" /\ worker[w].running) =>
              worker'[w].pc = "poll"]_vars

\* a worker sleeps after an error of its loop while a Process of the other
\* worker has failed on a Store error; Stop has not been called
C28_Witness ==
    /\ ~StopCalled
    /\ budget.faults = 0
    /\ \E w \in Workers : worker[w].pc = "backoff" /\ worker[w].running
    /\ \E t \in Tasks : task[t].pc = "sleep" /\ runs[task[t].id] = 0

\* The runs in which every handler succeeds and nobody calls Retry: jobs are
\* submitted, popped, executed and completed
NextSucceed ==
    \/ \E j \in Jobs : create_job(j)
    \/ \E j \in Jobs : create_job_commit(j)
    \/ \E t \in Tasks : dequeue(t)
    \/ \E t \in Tasks : acquire_lock(t)
    \/ \E j \in Jobs : lock_expire(j)
    \/ \E t \in Tasks : mark_processing(t)
    \/ \E t \in Tasks : handler_return(t)
    \/ \E t \in Tasks : mark_completed(t)
    \/ \E t \in Tasks : release_lock(t)

InitSucceed == Fresh /\ Started /\ budget = [jobs |-> NumJobs, calls |-> 0, faults |-> 0]

SpecSucceed == InitSucceed /\ [][NextSucceed]_vars

\* C22: when every handler succeeds, the handler of a submitted job is invoked
\* at most once at any time and, when nothing is left to do, exactly once, and
\* the job is then Completed with attempts 0, its result stored and started_at
\* and completed_at set
C22_SucceedingJobRunsOnce ==
    \A j \in Jobs :
        /\ runs[j] <= 1
        /\ (Drained /\ j \in Submitted) =>
              /\ runs[j] = 1
              /\ store[j].status = COMPLETED
              /\ store[j].retry_count = 0
              /\ store[j].result = RESULT
              /\ store[j].started_at # NoTime
              /\ store[j].completed_at # NoTime

\* C31: the two refusals of Retry are different values to the caller: the
\* answer for an existing job that is not retriable (None, lines 183-187) is
\* not the answer for an id without a record
C31_RefusalsDiffer ==
    [][\A c \in Callers :
        (caller[c].pc = "idle" /\ caller'[c].pc = "returned" /\ caller'[c].ret # "job") =>
            IF store[caller'[c].id].status = ABSENT
            THEN caller'[c].ret # "None"
            ELSE caller'[c].ret = "None"]_vars

\* C32: the job queue is FIFO: a pop takes the message at the head, and every
\* push, also that of a worker retry or of a Retry call, puts its message at
\* the tail behind the messages already queued
C32_QueueIsFifo ==
    [][/\ queue' # queue =>
            \/ /\ Len(queue') = Len(queue) + 1
               /\ SubSeq(queue', 1, Len(queue)) = queue
            \/ /\ queue # <<>>
               /\ queue' = Tail(queue)
               /\ \E t \in Tasks : /\ task[t].pc = "idle"
                                    /\ task'[t].pc = "lock"
                                    /\ task'[t].id = Head(queue).id
                                    /\ task'[t].retry_count = Head(queue).retry_count
       /\ \A t \in Tasks :
            (task[t].pc = "sleep" /\ task'[t].pc = "retrying") =>
                queue' = queue \o <<Message(task[t].id, task[t].retry_count + 1)>>
       /\ \A c \in Callers :
            (caller[c].pc = "selected" /\ caller'[c].pc = "flushed") =>
                queue' = queue \o <<Message(caller[c].id, caller'[c].retry_count)>>]_vars

\* the message of a retry is at the tail of the job queue, behind the first
\* message of another job
C32_Witness ==
    /\ Len(queue) >= 2
    /\ queue[1].retry_count = 0
    /\ queue[Len(queue)].retry_count >= 1
    /\ queue[Len(queue)].id # queue[1].id

\* C33: a job whose status is Queued, Processing or Retrying has a message on
\* the job queue or a worker inside _process_job for it
C33_NoOrphanedJob ==
    \A j \in Jobs :
        store[j].status \in {QUEUED, PROCESSING, RETRYING} =>
            Of(queue, j) # {} \/ InProcess(j)

\* SpecCalm with lock keys that expire
NextExpiry ==
    \/ NextCalm
    \/ (\E j \in Jobs : lock_expire(j)) /\ Calm

SpecExpiry == Init /\ [][NextExpiry]_vars

\* C34: while a handler is executing for a job, the task running it holds the
\* lease of the job (the key it set exists) and the record of the job exists
\* with status Processing
C34_ExecutingHoldsLeaseAndProcessing ==
    \A j \in Jobs : \A t \in Executing(j) :
        /\ task[t].lease
        /\ j \in locks
        /\ store[j].status = PROCESSING

\* C35: over the life of a job at most max_attempts Retry calls succeed
C35_RetriesBounded ==
    \A j \in Jobs : retried[j] <= MAX_RETRIES

\* C36: a Completed job has no error and has its result, also when it failed
\* and was retried before it succeeded
C36_CompletedHasNoError ==
    \A j \in Jobs :
        store[j].status = COMPLETED =>
            store[j].error = NULL /\ store[j].result # NULL

====
